---- MODULE Spec2Model ----
(***************************************************************************)
(* Model of the eBay sports-card scraper: the paginated retrieval loop of  *)
(* v3.py (scrape_year and the entry point), the earlier variants           *)
(* escrapebulk1.py and escrape.py, the title heuristics (guess_player,     *)
(* parse_title) and the year-specification parser (parse_years).           *)
(*                                                                         *)
(* A Python str is modelled as a sequence of one-character strings, a list *)
(* as a sequence, a dict as a record.  A call that may raise returns a     *)
(* record [exc, val]: exc = "none" and val the value, or exc the name of   *)
(* the exception.                                                          *)
(***************************************************************************)
EXTENDS Integers, Sequences, FiniteSets, TLC

\* ------------------------------------------------------------------------
\* Bounds of the model
MaxArgLen == 5        \* longest year specification explored by SpecYears
MaxTitleLen == 5      \* longest generated title explored by SpecTitle
MaxFails == 2         \* failed fetch attempts explored per run
MaxTotal == 2         \* largest totalPages value the API model reports
MaxCap == 2           \* largest --max-pages / --pages value explored

\* ------------------------------------------------------------------------
\* Characters

LowerLetters == <<"a","b","c","d","e","f","g","h","i","j","k","l","m",
                  "n","o","p","q","r","s","t","u","v","w","x","y","z">>
UpperLetters == <<"A","B","C","D","E","F","G","H","I","J","K","L","M",
                  "N","O","P","Q","R","S","T","U","V","W","X","Y","Z">>
DigitChars == <<"0","1","2","3","4","5","6","7","8","9">>

Range(s) == {s[i] : i \in DOMAIN s}

IsLower(c) == c \in Range(LowerLetters)
IsUpper(c) == c \in Range(UpperLetters)
IsAlpha(c) == IsLower(c) \/ IsUpper(c)
IsDigit(c) == c \in Range(DigitChars)
IsSpace(c) == c \in {" ", "\t", "\n", "\r", "\f"}
IsWordChar(c) == IsAlpha(c) \/ IsDigit(c) \/ c = "_"

ToUpper(c) == IF IsLower(c)
              THEN UpperLetters[CHOOSE i \in 1..26 : LowerLetters[i] = c]
              ELSE c

DigitVal(c) == (CHOOSE i \in 1..10 : DigitChars[i] = c) - 1

UpperStr(s) == [i \in DOMAIN s |-> ToUpper(s[i])]

Ok(v) == [exc |-> "none", val |-> v]
Raise(e) == [exc |-> e, val |-> <<>>]

\* ------------------------------------------------------------------------
\* str.split(), str.split(sep), str.strip()

RECURSIVE SplitWsFrom(_, _, _)
SplitWsFrom(s, i, cur) ==
    IF i > Len(s)
    THEN IF cur = <<>> THEN <<>> ELSE <<cur>>
    ELSE IF IsSpace(s[i])
         THEN IF cur = <<>>
              THEN SplitWsFrom(s, i + 1, <<>>)
              ELSE <<cur>> \o SplitWsFrom(s, i + 1, <<>>)
         ELSE SplitWsFrom(s, i + 1, Append(cur, s[i]))

\* title.split(): maximal runs of non-whitespace, no empty token
SplitWs(s) == SplitWsFrom(s, 1, <<>>)

RECURSIVE SplitSepFrom(_, _, _, _)
SplitSepFrom(s, sep, i, cur) ==
    IF i > Len(s)
    THEN <<cur>>
    ELSE IF s[i] = sep
         THEN <<cur>> \o SplitSepFrom(s, sep, i + 1, <<>>)
         ELSE SplitSepFrom(s, sep, i + 1, Append(cur, s[i]))

\* s.split(sep): every separator cuts, empty pieces are kept
SplitSep(s, sep) == SplitSepFrom(s, sep, 1, <<>>)

\* s.split(sep, 1) for an s that contains sep: cut at the first sep only
SplitFirst(s, sep) ==
    LET k == CHOOSE i \in 1..Len(s) :
                 s[i] = sep /\ \A j \in 1..(i - 1) : s[j] # sep
    IN  <<SubSeq(s, 1, k - 1), SubSeq(s, k + 1, Len(s))>>

RECURSIVE LStrip(_)
LStrip(s) == IF s # <<>> /\ IsSpace(Head(s)) THEN LStrip(Tail(s)) ELSE s

RECURSIVE RStrip(_)
RStrip(s) == IF s # <<>> /\ IsSpace(s[Len(s)])
             THEN RStrip(SubSeq(s, 1, Len(s) - 1))
             ELSE s

Strip(s) == RStrip(LStrip(s))

\* s[i], or "" when i is outside the string
At(s, i) == IF i \in 1..Len(s) THEN s[i] ELSE ""

RECURSIVE SkipWs(_, _)
SkipWs(s, q) == IF q <= Len(s) /\ IsSpace(s[q]) THEN SkipWs(s, q + 1) ELSE q

RECURSIVE DigitRunLen(_, _)
DigitRunLen(s, d) == IF d <= Len(s) /\ IsDigit(s[d])
                     THEN 1 + DigitRunLen(s, d + 1)
                     ELSE 0

Min(a, b) == IF a <= b THEN a ELSE b

\* least index of a sequence of match records that is a hit, 0 when none
FirstHit(ms) ==
    IF \E p \in DOMAIN ms : ms[p].hit
    THEN CHOOSE p \in DOMAIN ms : ms[p].hit /\ \A k \in 1..(p - 1) : ~ms[k].hit
    ELSE 0

\* ------------------------------------------------------------------------
\* v3.py: regexes and heuristics

NA == <<"N", "/", "A">>

GradeCodes == {<<"P","S","A">>, <<"B","G","S">>, <<"S","G","C">>}

GradeMiss == [hit |-> FALSE, code |-> <<>>, num |-> <<>>, stop |-> 0]

\* the tail \s*(\d+(?:\.\d)?)\b of GRADE_RE: digits from q up to r (exclusive)
GradeTail(s, p, q, r) ==
    IF r = q
    THEN GradeMiss
    ELSE IF At(s, r) = "." /\ IsDigit(At(s, r + 1)) /\ ~IsWordChar(At(s, r + 2))
    THEN [hit |-> TRUE, code |-> SubSeq(s, p, p + 2),
          num |-> SubSeq(s, q, r + 1), stop |-> r + 2]
    ELSE IF ~IsWordChar(At(s, r))
    THEN [hit |-> TRUE, code |-> SubSeq(s, p, p + 2),
          num |-> SubSeq(s, q, r - 1), stop |-> r]
    ELSE GradeMiss

GradeDigits(s, p, q) == GradeTail(s, p, q, q + DigitRunLen(s, q))

\* GRADE_RE anchored at p: [hit, code, num, stop], stop = index after the match
GradeMatchAt(s, p) ==
    IF /\ p + 2 <= Len(s)
       /\ ~IsWordChar(At(s, p - 1))
       /\ UpperStr(SubSeq(s, p, p + 2)) \in GradeCodes
    THEN GradeDigits(s, p, SkipWs(s, p + 3))
    ELSE GradeMiss

GradePick(s, ms, p) ==
    IF p = 0
    THEN [hit |-> FALSE, code |-> <<>>, num |-> <<>>, text |-> <<>>]
    ELSE [hit |-> TRUE, code |-> ms[p].code, num |-> ms[p].num,
          text |-> SubSeq(s, p, ms[p].stop - 1)]

GradeFirst(s, ms) == GradePick(s, ms, FirstHit(ms))

\* GRADE_RE.search(title): the leftmost position that matches; text is group 0
GRADE_RE(s) == GradeFirst(s, [p \in 1..Len(s) |-> GradeMatchAt(s, p)])

SkipHash(s, q) == IF At(s, q) = "#" THEN q + 1 ELSE q

\* end of the label (?:#|No\.|Card\s*#?) anchored at p, 0 when none
CardLabelEnd(s, p) ==
    IF At(s, p) = "#"
    THEN p + 1
    ELSE IF p + 2 <= Len(s) /\ UpperStr(SubSeq(s, p, p + 2)) = <<"N","O",".">>
    THEN p + 3
    ELSE IF p + 3 <= Len(s)
            /\ UpperStr(SubSeq(s, p, p + 3)) = <<"C","A","R","D">>
    THEN SkipHash(s, SkipWs(s, p + 4))
    ELSE 0

CardMiss == [hit |-> FALSE, num |-> <<>>]

\* the group (\d{1,4}[A-Z]?) at d, k digits long
CardGroup(s, d, k) ==
    IF k >= 1
    THEN [hit |-> TRUE,
          num |-> SubSeq(s, d, IF IsAlpha(At(s, d + k)) THEN d + k ELSE d + k - 1)]
    ELSE CardMiss

CardDigits(s, d) == CardGroup(s, d, Min(4, DigitRunLen(s, d)))

CardAfterLabel(s, e) == IF e = 0 THEN CardMiss ELSE CardDigits(s, SkipWs(s, e))

\* CARD_NO_RE anchored at p: [hit, num]
CardMatchAt(s, p) == CardAfterLabel(s, CardLabelEnd(s, p))

CardPick(ms, p) == IF p = 0 THEN CardMiss ELSE ms[p]

CardFirst(ms) == CardPick(ms, FirstHit(ms))

CARD_NO_RE(s) == CardFirst([p \in 1..Len(s) |-> CardMatchAt(s, p)])

BRAND_STOPWORDS == {
    <<"T","O","P","P","S">>, <<"U","P","P","E","R">>, <<"D","E","C","K">>,
    <<"F","L","E","E","R">>, <<"D","O","N","R","U","S","S">>,
    <<"B","O","W","M","A","N">>,
    <<"O","-","P","E","E","-","C","H","E","E">>,
    <<"P","A","N","I","N","I">>, <<"S","E","L","E","C","T">>,
    <<"P","R","I","Z","M">>, <<"O","P","T","I","C">>,
    <<"C","H","R","O","M","E">>, <<"H","O","O","P","S">>,
    <<"S","T","A","D","I","U","M">>, <<"C","L","U","B">>,
    <<"S","K","Y","B","O","X">>, <<"S","C","O","R","E">>,
    <<"L","E","A","F">>, <<"R","C">>, <<"R","O","O","K","I","E">> }

\* re.sub(r"[^A-Za-z]", "", tok).upper()
_clean(tok) == UpperStr(SelectSeq(tok, IsAlpha))

\* GuessScan testing only the first token of a pair against the stopwords
RECURSIVE GuessScan_ignores_second(_, _, _, _)
GuessScan_ignores_second(tok, clean, stop, i) ==
    IF i > Len(tok) - 1
    THEN 0
    ELSE IF clean[i] \in stop
         THEN GuessScan_ignores_second(tok, clean, stop, i + 1)
         ELSE IF IsUpper(tok[i][1]) /\ IsUpper(tok[i + 1][1])
              THEN i
              ELSE GuessScan_ignores_second(tok, clean, stop, i + 1)

\* the for loop of guess_player from index i (1-based): 0 when it runs out
RECURSIVE GuessScan(_, _, _, _)
GuessScan(tok, clean, stop, i) ==
    IF i > Len(tok) - 1
    THEN 0
    ELSE IF clean[i] \in stop \/ clean[i + 1] \in stop
         THEN GuessScan(tok, clean, stop, i + 1)
         ELSE IF IsUpper(tok[i][1]) /\ IsUpper(tok[i + 1][1])
              THEN i
              ELSE GuessScan(tok, clean, stop, i + 1)

\* the return statements of guess_player, i = where the loop stopped
GuessResult(tok, i) ==
    IF i # 0
    THEN Ok(tok[i] \o <<" ">> \o tok[i + 1])
    ELSE IF tok = <<>> THEN Raise("IndexError") ELSE Ok(tok[1])

GuessTokens(tok, stop) ==
    GuessResult(tok, GuessScan(tok, [i \in DOMAIN tok |-> _clean(tok[i])], stop, 1))

guess_player(title) == GuessTokens(SplitWs(title), BRAND_STOPWORDS)

\* the dict returned by parse_title from the two searches and the player
TitleDict(g_m, n_m, player) ==
    IF player.exc # "none"
    THEN Raise(player.exc)
    ELSE Ok([player |-> player.val,
             grade |-> IF g_m.hit THEN UpperStr(g_m.code) \o <<" ">> \o g_m.num
                                  ELSE NA,
             card_no |-> IF n_m.hit THEN n_m.num ELSE NA])

parse_title(title) ==
    TitleDict(GRADE_RE(title), CARD_NO_RE(title), guess_player(title))

\* ------------------------------------------------------------------------
\* escrapebulk1.py: heuristics (same regexes as v3.py, one more stopword)

bulk_BRAND_STOPWORDS == BRAND_STOPWORDS \cup {<<"K","O","B","E">>}

clean_token(tok) == UpperStr(SelectSeq(tok, IsAlpha))

bulk_guess_player(title) ==
    GuessResult(SplitWs(title),
                GuessScan(SplitWs(title),
                          [i \in DOMAIN SplitWs(title) |->
                               clean_token(SplitWs(title)[i])],
                          bulk_BRAND_STOPWORDS, 1))

bulk_parse_title(title) ==
    TitleDict(GRADE_RE(title), CARD_NO_RE(title), bulk_guess_player(title))

\* ------------------------------------------------------------------------
\* escrape.py: heuristics

\* the group (\d{1,4}[A-Z]?) followed by \b, for a digit run of n at d
escrape_CardGroup(s, d, n) ==
    IF n >= 1 /\ n <= 4
    THEN IF IsUpper(At(s, d + n)) /\ ~IsWordChar(At(s, d + n + 1))
         THEN [hit |-> TRUE, num |-> SubSeq(s, d, d + n)]
         ELSE IF ~IsWordChar(At(s, d + n))
              THEN [hit |-> TRUE, num |-> SubSeq(s, d, d + n - 1)]
              ELSE CardMiss
    ELSE CardMiss

escrape_CardDigits(s, d) == escrape_CardGroup(s, d, DigitRunLen(s, d))

\* CARD_NO_RE = #?\s*(\d{1,4}[A-Z]?)\b anchored at p (case-sensitive)
escrape_CardMatchAt(s, p) == escrape_CardDigits(s, SkipWs(s, SkipHash(s, p)))

escrape_CARD_NO_RE(s) == CardFirst([p \in 1..Len(s) |-> escrape_CardMatchAt(s, p)])

\* the dict returned by escrape.py's parse_title
escrape_TitleDict(parts, grade_match, card_no_match) ==
    Ok([player |-> IF Len(parts) >= 2
                   THEN parts[1] \o <<" ">> \o parts[2]
                   ELSE parts[1],
        grade |-> IF grade_match.hit THEN UpperStr(grade_match.text) ELSE NA,
        card_no |-> IF card_no_match.hit THEN card_no_match.num ELSE NA])

escrape_parse_title(title) ==
    escrape_TitleDict(SplitSep(title, " "), GRADE_RE(title),
                      escrape_CARD_NO_RE(title))

\* ------------------------------------------------------------------------
\* parse_years (identical in v3.py and escrapebulk1.py)

RECURSIVE DecimalValue(_)
DecimalValue(ds) == IF ds = <<>>
                    THEN 0
                    ELSE 10 * DecimalValue(SubSeq(ds, 1, Len(ds) - 1))
                         + DigitVal(ds[Len(ds)])

AllDigits(ds) == ds # <<>> /\ \A i \in DOMAIN ds : IsDigit(ds[i])

\* int(s) of a str: surrounding whitespace, an optional sign, decimal digits
PyInt(s) ==
    LET t == Strip(s)
    IN  IF t # <<>> /\ Head(t) \in {"-", "+"}
        THEN IF AllDigits(Tail(t))
             THEN Ok(IF Head(t) = "-" THEN 0 - DecimalValue(Tail(t))
                                      ELSE DecimalValue(Tail(t)))
             ELSE Raise("ValueError")
        ELSE IF AllDigits(t) THEN Ok(DecimalValue(t)) ELSE Raise("ValueError")

\* list(range(s, e + 1))
RangeList(s, e) == [i \in 1..(e + 1 - s) |-> s + i - 1]

\* the elements of S, all within lo..hi, in ascending order
RECURSIVE SortWithin(_, _, _)
SortWithin(S, lo, hi) ==
    IF S = {}
    THEN <<>>
    ELSE IF lo = hi
    THEN <<lo>>
    ELSE SortWithin({x \in S : x <= (lo + hi) \div 2}, lo, (lo + hi) \div 2)
         \o SortWithin({x \in S : x > (lo + hi) \div 2}, (lo + hi) \div 2 + 1, hi)

\* sorted(S) of a finite set of integers
SortedList(S) ==
    IF S = {}
    THEN <<>>
    ELSE SortWithin(S, CHOOSE x \in S : \A y \in S : x <= y,
                       CHOOSE x \in S : \A y \in S : x >= y)

\* the body of the for loop of parse_years, from piece i of arg.split(',')
RECURSIVE ParseParts(_, _, _)
ParseParts(parts, i, years) ==
    IF i > Len(parts)
    THEN Ok(years)
    ELSE LET part == Strip(parts[i])
         IN  IF part = <<>>
             THEN ParseParts(parts, i + 1, years)
             ELSE IF "-" \in Range(part)
                  THEN LET se == SplitFirst(part, "-")
                           s == PyInt(se[1])
                           e == PyInt(se[2])
                       IN  IF s.exc # "none" \/ e.exc # "none"
                           THEN Raise("ValueError")
                           ELSE ParseParts(parts, i + 1,
                                           years \o RangeList(s.val, e.val))
                  ELSE LET v == PyInt(part)
                       IN  IF v.exc # "none"
                           THEN Raise("ValueError")
                           ELSE ParseParts(parts, i + 1, Append(years, v.val))

\* parse_years returning the list as collected, without sorted(set(...))
parse_years_as_collected(arg) == ParseParts(SplitSep(arg, ","), 1, <<>>)

parse_years(arg) ==
    LET years == ParseParts(SplitSep(arg, ","), 1, <<>>)
    IN  IF years.exc # "none"
        THEN years
        ELSE Ok(SortedList(Range(years.val)))

\* ------------------------------------------------------------------------
\* Inputs of the model

\* year specifications given on the command line of v3.py / escrapebulk1.py
YearArgs == { <<"2", ",", "1">>, <<"2", ",", "2">>, <<"1", "-">> }

\* --delay values: the default and one equal to the retry cooldown
Delays == {1, 5}

\* time.sleep(5) of the retry branch of v3.py
RetryCooldown == 5

\* raw items of a response: dicts whose keys may be absent
ItemAlBo == [title |-> <<"A","l"," ","B","o">>, viewItemURL |-> <<"u">>,
             galleryURL |-> <<"g">>, itemId |-> <<"7">>]
ItemRc == [title |-> <<"R","C">>, itemId |-> <<"8">>]
ItemNoTitle == [viewItemURL |-> <<"v">>]

\* the item arrays a response may carry (empty = array empty or absent)
PageSamples == { <<>>, <<ItemAlBo>>, <<ItemAlBo, ItemRc>>, <<ItemRc, ItemNoTitle>> }

\* the totalPages values a response may carry (0 = absent or not a number)
TotalSamples == 0..MaxTotal

\* it.get(key, [""])[0]
Get(it, key) == IF key \in DOMAIN it THEN it[key] ELSE <<>>

\* ------------------------------------------------------------------------
\* State

VARIABLES
    variant,        \* which script runs: "v3", "bulk", "escrape" ("" = none)
    arg,            \* the years argument (args.years)
    years,          \* result of parse_years
    yi,             \* position of the for loop over years (1-based)
    max_pages,      \* --max-pages (v3) / --pages (bulk, escrape)
    delay,          \* --delay
    combined,       \* --combined (v3)
    year,           \* scrape_year: the year being scraped
    rows,           \* scrape_year: rows (all_rows in escrape.py)
    page,           \* scrape_year: page
    fetched_pages,  \* scrape_year: fetched_pages (v3)
    all_rows,       \* __main__: all_rows
    files,          \* CSV files opened for writing so far
    pc,             \* control position
    exc,            \* the uncaught exception that ended the run, or "none"
    trace,          \* requests and sleeps issued by the current scrape_year
    delivered,      \* every item served so far by the API, in serving order
    title,          \* SpecTitle: the title under extraction
    extracted       \* SpecTitle: results of the extractors

vars == <<variant, arg, years, yi, max_pages, delay, combined, year, rows,
          page, fetched_pages, all_rows, files, pc, exc, trace, delivered,
          title, extracted>>

cfgVars == <<variant, arg, max_pages, delay, combined>>
titleVars == <<title, extracted>>

\* events of the trace
GetEvent(p, ok, n, t) ==
    [op |-> "get", page |-> p, ok |-> ok, n |-> n, total |-> t, secs |-> 0]
SleepEvent(d) ==
    [op |-> "sleep", page |-> 0, ok |-> TRUE, n |-> 0, total |-> 0, secs |-> d]

NumFails(tr) == Cardinality({i \in DOMAIN tr : tr[i].op = "get" /\ ~tr[i].ok})

YearFile(y) == [name |-> "year", year |-> y]
CombinedFile == [name |-> "all", year |-> 0]

\* the items of a response, each tagged with the year and page it was served
\* for and its position in the response
Tagged(y, p, items) ==
    [i \in DOMAIN items |-> [year |-> y, page |-> p, idx |-> i, item |-> items[i]]]

\* ------------------------------------------------------------------------
\* v3.py

\* the dict appended to rows for one raw item, from its title and parse_title
v3_row_dict(y, it, t, parsed) ==
    IF parsed.exc # "none"
    THEN Raise(parsed.exc)
    ELSE Ok([year |-> y, title |-> t, player |-> parsed.val.player,
             grade |-> parsed.val.grade, card_no |-> parsed.val.card_no,
             item_url |-> Get(it, "viewItemURL"),
             gallery_url |-> Get(it, "galleryURL")])

v3_row(y, it) == v3_row_dict(y, it, Get(it, "title"), parse_title(Get(it, "title")))

\* v3_append_rows putting the rows of a page before the rows collected so far
v3_append_rows_newest_first(y, items, rs) ==
    LET made == [i \in DOMAIN items |-> v3_row(y, items[i])]
        bad == {i \in DOMAIN items : made[i].exc # "none"}
        first == IF bad = {} THEN Len(items) + 1
                 ELSE CHOOSE i \in bad : \A k \in bad : i <= k
    IN  [exc |-> IF bad = {} THEN "none" ELSE made[first].exc,
         val |-> [i \in 1..(first - 1) |-> made[i].val] \o rs]

\* the for loop over items: [exc, val], val = rows after the loop or, when an
\* item raised, the rows appended before it
v3_append_rows(y, items, rs) ==
    LET made == [i \in DOMAIN items |-> v3_row(y, items[i])]
        bad == {i \in DOMAIN items : made[i].exc # "none"}
        first == IF bad = {} THEN Len(items) + 1
                 ELSE CHOOSE i \in bad : \A k \in bad : i <= k
    IN  [exc |-> IF bad = {} THEN "none" ELSE made[first].exc,
         val |-> rs \o [i \in 1..(first - 1) |-> made[i].val]]

main_parsed(r) ==
    IF r.exc # "none"
    THEN /\ pc' = "crashed"
         /\ exc' = r.exc
         /\ UNCHANGED years
    ELSE /\ pc' = "main"
         /\ years' = r.val
         /\ UNCHANGED exc

\* years = parse_years(args.years); all_rows = []
main_parse_years ==
    /\ pc = "start"
    /\ variant \in {"v3", "bulk"}
    /\ main_parsed(parse_years(arg))
    /\ UNCHANGED <<cfgVars, yi, year, rows, page, fetched_pages, all_rows,
                   files, trace, delivered, titleVars>>

\* for yr in years: scrape_year(yr, ...) up to the head of its while loop
v3_scrape_year_enter ==
    /\ pc = "main"
    /\ variant = "v3"
    /\ yi <= Len(years)
    /\ year' = years[yi]
    /\ rows' = <<>>
    /\ page' = 1
    /\ fetched_pages' = 0
    /\ trace' = <<>>
    /\ pc' = "loop"
    /\ UNCHANGED <<cfgVars, years, yi, all_rows, files, exc, delivered,
                   titleVars>>

v3_cap_reached == max_pages # 0 /\ fetched_pages >= max_pages

\* if max_pages and fetched_pages >= max_pages: break
v3_cap_break ==
    /\ pc = "loop"
    /\ variant = "v3"
    /\ v3_cap_reached
    /\ pc' = "finish"
    /\ UNCHANGED <<cfgVars, years, yi, year, rows, page, fetched_pages,
                   all_rows, files, exc, trace, delivered, titleVars>>

\* v3_fetch_fail moving on to the next page after a failure
v3_fetch_fail_skips_page ==
    /\ pc = "loop"
    /\ variant = "v3"
    /\ ~v3_cap_reached
    /\ NumFails(trace) < MaxFails
    /\ trace' = trace \o <<GetEvent(page, FALSE, 0, 0), SleepEvent(RetryCooldown)>>
    /\ page' = page + 1
    /\ UNCHANGED <<cfgVars, years, yi, year, rows, fetched_pages,
                   all_rows, files, pc, exc, delivered, titleVars>>

\* ebay_find raises: warn, time.sleep(5), continue
v3_fetch_fail ==
    /\ pc = "loop"
    /\ variant = "v3"
    /\ ~v3_cap_reached
    /\ NumFails(trace) < MaxFails
    /\ trace' = trace \o <<GetEvent(page, FALSE, 0, 0), SleepEvent(RetryCooldown)>>
    /\ UNCHANGED <<cfgVars, years, yi, year, rows, page, fetched_pages,
                   all_rows, files, pc, exc, delivered, titleVars>>

\* ebay_find returns a response without items: break
v3_fetch_empty ==
    /\ pc = "loop"
    /\ variant = "v3"
    /\ ~v3_cap_reached
    /\ \E total \in TotalSamples :
          trace' = Append(trace, GetEvent(page, TRUE, 0, total))
    /\ pc' = "finish"
    /\ UNCHANGED <<cfgVars, years, yi, year, rows, page, fetched_pages,
                   all_rows, files, exc, delivered, titleVars>>

\* v3_page_done stepping over a page number when it moves on
v3_page_done_skips_page(r, got, total_pg) ==
    /\ rows' = r.val
    /\ IF r.exc # "none"
       THEN /\ pc' = "crashed"
            /\ exc' = r.exc
            /\ trace' = got
            /\ UNCHANGED <<page, fetched_pages>>
       ELSE /\ fetched_pages' = fetched_pages + 1
            /\ UNCHANGED exc
            /\ IF page >= total_pg
               THEN /\ pc' = "finish"
                    /\ trace' = got
                    /\ UNCHANGED page
               ELSE /\ pc' = "loop"
                    /\ page' = page + 2
                    /\ trace' = Append(got, SleepEvent(delay))

\* lines 139-155 once the rows of the page are made (r) and the request is
\* logged (got): an item that raised ends the run, else count and step
v3_page_done(r, got, total_pg) ==
    /\ rows' = r.val
    /\ IF r.exc # "none"
       THEN /\ pc' = "crashed"
            /\ exc' = r.exc
            /\ trace' = got
            /\ UNCHANGED <<page, fetched_pages>>
       ELSE /\ fetched_pages' = fetched_pages + 1
            /\ UNCHANGED exc
            /\ IF page >= total_pg
               THEN /\ pc' = "finish"
                    /\ trace' = got
                    /\ UNCHANGED page
               ELSE /\ pc' = "loop"
                    /\ page' = page + 1
                    /\ trace' = Append(got, SleepEvent(delay))

\* ebay_find returns a response with items: append a row per item, count the
\* page, then stop on the page count or step to the next page and sleep
v3_fetch_items ==
    /\ pc = "loop"
    /\ variant = "v3"
    /\ ~v3_cap_reached
    /\ \E items \in PageSamples \ {<<>>}, total_pg \in TotalSamples :
          /\ delivered' = delivered \o Tagged(year, page, items)
          /\ v3_page_done(v3_append_rows(year, items, rows),
                          Append(trace, GetEvent(page, TRUE, Len(items), total_pg)),
                          total_pg)
    /\ UNCHANGED <<cfgVars, years, yi, year, all_rows, files, titleVars>>

\* if rows: write cards_<year>.csv; return rows; all_rows.extend(...)
v3_scrape_year_return ==
    /\ pc = "finish"
    /\ variant = "v3"
    /\ files' = IF rows # <<>> THEN files \cup {YearFile(year)} ELSE files
    /\ all_rows' = all_rows \o rows
    /\ yi' = yi + 1
    /\ pc' = "main"
    /\ UNCHANGED <<cfgVars, years, year, rows, page, fetched_pages, exc,
                   trace, delivered, titleVars>>

\* after the loop over years: if args.combined and all_rows: write cards_all.csv
v3_main_end ==
    /\ pc = "main"
    /\ variant = "v3"
    /\ yi > Len(years)
    /\ files' = IF combined /\ all_rows # <<>>
                THEN files \cup {CombinedFile}
                ELSE files
    /\ pc' = "done"
    /\ UNCHANGED <<cfgVars, years, yi, year, rows, page, fetched_pages,
                   all_rows, exc, trace, delivered, titleVars>>

Init ==
    /\ variant = "v3"
    /\ arg \in YearArgs
    /\ max_pages \in 0..MaxCap
    /\ delay \in Delays
    /\ combined \in BOOLEAN
    /\ years = <<>>
    /\ yi = 1
    /\ year = 0
    /\ rows = <<>>
    /\ page = 1
    /\ fetched_pages = 0
    /\ all_rows = <<>>
    /\ files = {}
    /\ pc = "start"
    /\ exc = "none"
    /\ trace = <<>>
    /\ delivered = <<>>
    /\ title = <<>>
    /\ extracted = Raise("pending")

Next ==
    \/ main_parse_years
    \/ v3_scrape_year_enter
    \/ v3_cap_break
    \/ v3_fetch_fail
    \/ v3_fetch_empty
    \/ v3_fetch_items
    \/ v3_scrape_year_return
    \/ v3_main_end

Spec == Init /\ [][Next]_vars

\* ------------------------------------------------------------------------
\* escrapebulk1.py and escrape.py: scrape_year without retry.  The image
\* download of each item (download_image, which swallows its own errors) is
\* left to the storage collaborator and not modelled.

\* player.replace(' ', '_')
Underscored(s) == [i \in DOMAIN s |-> IF s[i] = " " THEN "_" ELSE s[i]]

\* f"{player_}_{card_no}_{grade}_{item_id}.jpg"
ImageName(parsed, item_id) ==
    Underscored(parsed.player) \o <<"_">> \o parsed.card_no \o <<"_">>
        \o parsed.grade \o <<"_">> \o item_id \o <<".", "j", "p", "g">>

\* the dict appended for one raw item by the two earlier scripts
old_row_dict(y, it, t, parsed) ==
    IF parsed.exc # "none"
    THEN Raise(parsed.exc)
    ELSE Ok([year |-> y, title |-> t, player |-> parsed.val.player,
             grade |-> parsed.val.grade, card_no |-> parsed.val.card_no,
             image_file |-> <<"images", y, ImageName(parsed.val, Get(it, "itemId"))>>,
             item_url |-> Get(it, "viewItemURL")])

bulk_row(y, it) ==
    old_row_dict(y, it, Get(it, "title"), bulk_parse_title(Get(it, "title")))

escrape_row(y, it) ==
    old_row_dict(y, it, Get(it, "title"), escrape_parse_title(Get(it, "title")))

\* the for loop over items given the dict (or exception) made for each item
append_made(made, rs) ==
    LET bad == {i \in DOMAIN made : made[i].exc # "none"}
        first == IF bad = {} THEN Len(made) + 1
                 ELSE CHOOSE i \in bad : \A k \in bad : i <= k
    IN  [exc |-> IF bad = {} THEN "none" ELSE made[first].exc,
         val |-> rs \o [i \in 1..(first - 1) |-> made[i].val]]

bulk_append_rows(y, items, rs) ==
    append_made([i \in DOMAIN items |-> bulk_row(y, items[i])], rs)

escrape_append_rows(y, items, rs) ==
    append_made([i \in DOMAIN items |-> escrape_row(y, items[i])], rs)

\* for yr in years: scrape_year(yr, ...) up to the head of its for loop
bulk_scrape_year_enter ==
    /\ pc = "main"
    /\ variant = "bulk"
    /\ yi <= Len(years)
    /\ year' = years[yi]
    /\ rows' = <<>>
    /\ page' = 1
    /\ trace' = <<>>
    /\ pc' = "loop"
    /\ UNCHANGED <<cfgVars, years, yi, fetched_pages, all_rows, files, exc,
                   delivered, titleVars>>

\* range(1, max_pages + 1) is exhausted
old_loop_end ==
    /\ pc = "loop"
    /\ variant \in {"bulk", "escrape"}
    /\ page > max_pages
    /\ pc' = "finish"
    /\ UNCHANGED <<cfgVars, years, yi, year, rows, page, fetched_pages,
                   all_rows, files, exc, trace, delivered, titleVars>>

\* ebay_find_items raises: nothing catches it
old_fetch_fail ==
    /\ pc = "loop"
    /\ variant \in {"bulk", "escrape"}
    /\ page <= max_pages
    /\ trace' = Append(trace, GetEvent(page, FALSE, 0, 0))
    /\ pc' = "crashed"
    /\ exc' = "RequestException"
    /\ UNCHANGED <<cfgVars, years, yi, year, rows, page, fetched_pages,
                   all_rows, files, delivered, titleVars>>

\* ebay_find_items returns []: break
old_fetch_empty ==
    /\ pc = "loop"
    /\ variant \in {"bulk", "escrape"}
    /\ page <= max_pages
    /\ trace' = Append(trace, GetEvent(page, TRUE, 0, 0))
    /\ pc' = "finish"
    /\ UNCHANGED <<cfgVars, years, yi, year, rows, page, fetched_pages,
                   all_rows, files, exc, delivered, titleVars>>

\* the body of the for loop once the rows of the page are made
old_page_done(r, n) ==
    /\ rows' = r.val
    /\ IF r.exc # "none"
       THEN /\ pc' = "crashed"
            /\ exc' = r.exc
            /\ trace' = Append(trace, GetEvent(page, TRUE, n, 0))
            /\ UNCHANGED page
       ELSE /\ UNCHANGED <<pc, exc>>
            /\ trace' = trace \o <<GetEvent(page, TRUE, n, 0), SleepEvent(delay)>>
            /\ page' = page + 1

\* ebay_find_items returns items: a row per item, time.sleep(delay), next page
bulk_fetch_items ==
    /\ pc = "loop"
    /\ variant = "bulk"
    /\ page <= max_pages
    /\ \E items \in PageSamples \ {<<>>} :
          /\ delivered' = delivered \o Tagged(year, page, items)
          /\ old_page_done(bulk_append_rows(year, items, rows), Len(items))
    /\ UNCHANGED <<cfgVars, years, yi, year, fetched_pages, all_rows, files,
                   titleVars>>

escrape_fetch_items ==
    /\ pc = "loop"
    /\ variant = "escrape"
    /\ page <= max_pages
    /\ \E items \in PageSamples \ {<<>>} :
          /\ delivered' = delivered \o Tagged(year, page, items)
          /\ old_page_done(escrape_append_rows(year, items, rows), Len(items))
    /\ UNCHANGED <<cfgVars, years, yi, year, fetched_pages, all_rows, files,
                   titleVars>>

\* if rows: write cards_<year>.csv; return rows; all_rows.extend(...)
bulk_scrape_year_return ==
    /\ pc = "finish"
    /\ variant = "bulk"
    /\ files' = IF rows # <<>> THEN files \cup {YearFile(year)} ELSE files
    /\ all_rows' = all_rows \o rows
    /\ yi' = yi + 1
    /\ pc' = "main"
    /\ UNCHANGED <<cfgVars, years, year, rows, page, fetched_pages, exc,
                   trace, delivered, titleVars>>

\* if len(years) > 1 and all_rows: write cards_all.csv
bulk_main_end ==
    /\ pc = "main"
    /\ variant = "bulk"
    /\ yi > Len(years)
    /\ files' = IF Len(years) > 1 /\ all_rows # <<>>
                THEN files \cup {CombinedFile}
                ELSE files
    /\ pc' = "done"
    /\ UNCHANGED <<cfgVars, years, yi, year, rows, page, fetched_pages,
                   all_rows, exc, trace, delivered, titleVars>>

escrape_started(r) ==
    IF r.exc # "none"
    THEN /\ pc' = "crashed"
         /\ exc' = "SystemExit"
         /\ UNCHANGED <<year, years>>
    ELSE /\ pc' = "loop"
         /\ year' = r.val
         /\ years' = <<r.val>>
         /\ UNCHANGED exc

\* escrape.py __main__: the year argument is an int (argparse type=int), then
\* scrape_year(args.year, ...) up to the head of its for loop
escrape_scrape_year_enter ==
    /\ pc = "start"
    /\ variant = "escrape"
    /\ escrape_started(PyInt(arg))
    /\ rows' = <<>>
    /\ page' = 1
    /\ trace' = <<>>
    /\ UNCHANGED <<cfgVars, yi, fetched_pages, all_rows, files, delivered,
                   titleVars>>

\* escrape.py after the loop: the CSV is opened for writing unconditionally,
\* then all_rows[0].keys() is evaluated
escrape_save_csv ==
    /\ pc = "finish"
    /\ variant = "escrape"
    /\ files' = files \cup {YearFile(year)}
    /\ IF rows = <<>>
       THEN pc' = "crashed" /\ exc' = "IndexError"
       ELSE pc' = "done" /\ UNCHANGED exc
    /\ UNCHANGED <<cfgVars, years, yi, year, rows, page, fetched_pages,
                   all_rows, trace, delivered, titleVars>>

\* year arguments given to the three scripts
VariantArgs == YearArgs \cup { <<"1">> }

InitVariants ==
    /\ variant \in {"v3", "bulk", "escrape"}
    /\ arg \in VariantArgs
    /\ max_pages \in 0..MaxCap
    /\ delay \in Delays
    /\ combined \in BOOLEAN
    /\ years = <<>>
    /\ yi = 1
    /\ year = 0
    /\ rows = <<>>
    /\ page = 1
    /\ fetched_pages = 0
    /\ all_rows = <<>>
    /\ files = {}
    /\ pc = "start"
    /\ exc = "none"
    /\ trace = <<>>
    /\ delivered = <<>>
    /\ title = <<>>
    /\ extracted = Raise("pending")

NextVariants ==
    \/ Next
    \/ bulk_scrape_year_enter
    \/ old_loop_end
    \/ old_fetch_fail
    \/ old_fetch_empty
    \/ bulk_fetch_items
    \/ escrape_fetch_items
    \/ bulk_scrape_year_return
    \/ bulk_main_end
    \/ escrape_scrape_year_enter
    \/ escrape_save_csv

SpecVariants == InitVariants /\ [][NextVariants]_vars

\* ------------------------------------------------------------------------
\* The pure functions on their own

Seqs(A, n) == UNION {[1..k -> A] : k \in 0..n}

ArgAlphabet == {"1", "2", ",", "-", " "}

\* parse_years applied to every short year specification
InitYears ==
    /\ variant \in {"v3", "bulk"}
    /\ arg \in Seqs(ArgAlphabet, MaxArgLen)
    /\ max_pages = 0
    /\ delay = 1
    /\ combined = FALSE
    /\ years = <<>>
    /\ yi = 1
    /\ year = 0
    /\ rows = <<>>
    /\ page = 1
    /\ fetched_pages = 0
    /\ all_rows = <<>>
    /\ files = {}
    /\ pc = "start"
    /\ exc = "none"
    /\ trace = <<>>
    /\ delivered = <<>>
    /\ title = <<>>
    /\ extracted = Raise("pending")

NextYears == main_parse_years

SpecYears == InitYears /\ [][NextYears]_vars

TitleAlphabet == {"R", "C", "c", "A", "#", " "}

\* titles from the specification and from the stopword lists
TitleExamples == {
    <<"2","0","2","0"," ","T","o","p","p","s"," ","C","h","r","o","m","e"," ",
      "P","S","A"," ","1","0"," ","M","i","k","e"," ","T","r","o","u","t"," ",
      "#","2","7">>,
    <<"K","o","b","e"," ","B","r","y","a","n","t"," ","R","C">>,
    <<"T","o","p","p","s"," ","C","h","r","o","m","e">>,
    <<"O","-","P","e","e","-","C","h","e","e"," ","W","a","y","n","e">>,
    <<"m","i","k","e"," ","t","r","o","u","t">>,
    <<"T","r","o","u","t">>,
    <<"\t">> }

\* the extractors applied to every short title and to the examples
InitTitle ==
    /\ variant \in {"v3", "bulk", "escrape"}
    /\ title \in Seqs(TitleAlphabet, MaxTitleLen) \cup TitleExamples
    /\ extracted = Raise("pending")
    /\ arg = <<>>
    /\ max_pages = 0
    /\ delay = 1
    /\ combined = FALSE
    /\ years = <<>>
    /\ yi = 1
    /\ year = 0
    /\ rows = <<>>
    /\ page = 1
    /\ fetched_pages = 0
    /\ all_rows = <<>>
    /\ files = {}
    /\ pc = "title"
    /\ exc = "none"
    /\ trace = <<>>
    /\ delivered = <<>>

title_extracted(r) ==
    /\ pc = "title"
    /\ extracted' = r
    /\ pc' = "extracted"
    /\ UNCHANGED <<cfgVars, years, yi, year, rows, page, fetched_pages,
                   all_rows, files, exc, trace, delivered, title>>

v3_extract == variant = "v3" /\ title_extracted(parse_title(title))
bulk_extract == variant = "bulk" /\ title_extracted(bulk_parse_title(title))
escrape_extract == variant = "escrape" /\ title_extracted(escrape_parse_title(title))

NextTitle == v3_extract \/ bulk_extract \/ escrape_extract

SpecTitle == InitTitle /\ [][NextTitle]_vars

\* fairness of the v3.py run: every step that can be taken is taken, and a
\* fetch that is retried forever succeeds at some attempt
SpecLive ==
    /\ Init
    /\ [][Next]_vars
    /\ WF_vars(Next)
    /\ WF_vars(v3_fetch_empty \/ v3_fetch_items)

\* ------------------------------------------------------------------------
\* Properties

IsGet(e) == e.op = "get"
IsOkGet(e) == e.op = "get" /\ e.ok
IsPageGet(e) == e.op = "get" /\ e.ok /\ e.n > 0

\* requests of the current scrape_year, in order
Gets(tr) == SelectSeq(tr, IsGet)
OkGets(tr) == SelectSeq(tr, IsOkGet)

\* scrape_year of v3.py is over: it left its loop, or an exception left it
v3_year_ended ==
    /\ variant = "v3"
    /\ pc = "finish" \/ (pc = "crashed" /\ exc # "ValueError")

\* every response so far reported totalPages = T and carried items
AllPagesFull(T) ==
    \A i \in DOMAIN trace :
        trace[i].op = "get" => trace[i].ok /\ trace[i].n > 0 /\ trace[i].total = T

\* C1: when no fetch fails and every response reports the same totalPages
\* T >= 1 with non-empty items, scrape_year issues exactly T fetches when
\* max_pages = 0 and exactly min(max_pages, T) when max_pages > 0.
C1_FetchCount ==
    v3_year_ended =>
        \A T \in 1..MaxTotal :
            AllPagesFull(T) =>
                Len(Gets(trace)) = IF max_pages = 0 THEN T ELSE Min(max_pages, T)

\* C1, restricted to the runs in which scrape_year returns (no item raises)
C1_FetchCountOnReturn ==
    (variant = "v3" /\ pc = "finish") =>
        \A T \in 1..MaxTotal :
            AllPagesFull(T) =>
                Len(Gets(trace)) = IF max_pages = 0 THEN T ELSE Min(max_pages, T)

C1_ReturnWitness ==
    /\ pc = "finish"
    /\ max_pages = 0
    /\ AllPagesFull(MaxTotal)
    /\ Len(Gets(trace)) = MaxTotal

LastGet(tr) == Gets(tr)[Len(Gets(tr))]

\* C2: after a successful response with items whose total page count is
\* unknown (0), the loop does not stop on the page count: if scrape_year has
\* left its loop right after such a response, the max-page cap was reached.
C2_UnknownTotalContinues ==
    (/\ variant = "v3"
     /\ pc = "finish"
     /\ Gets(trace) # <<>>
     /\ trace[Len(trace)] = LastGet(trace)
     /\ IsPageGet(LastGet(trace))
     /\ LastGet(trace).total = 0)
        => v3_cap_reached

\* the next request after position i of the trace, 0 when there is none
NextGetAfter(tr, i) ==
    IF \E j \in (i + 1)..Len(tr) : tr[j].op = "get"
    THEN CHOOSE j \in (i + 1)..Len(tr) :
             tr[j].op = "get" /\ \A k \in (i + 1)..(j - 1) : tr[k].op # "get"
    ELSE 0

\* a step in which a request of v3.py fails
FailedFetchStep ==
    /\ variant = "v3"
    /\ Len(trace') > Len(trace)
    /\ \E i \in (Len(trace) + 1)..Len(trace') :
          trace'[i].op = "get" /\ ~trace'[i].ok

\* C3: a failed fetch is never fatal and is retried on the same page: the
\* failed attempt leaves page, fetched_pages and the rows unchanged and the
\* loop running, and the request that follows a failed one carries the same
\* page number, however many failures came before.
C3_FailedFetchRetriesSamePage ==
    /\ [][FailedFetchStep =>
            /\ page' = page
            /\ fetched_pages' = fetched_pages
            /\ rows' = rows
            /\ all_rows' = all_rows
            /\ pc' = "loop"
            /\ exc' = "none"]_vars
    /\ [](variant = "v3" =>
            \A i \in DOMAIN trace :
                (trace[i].op = "get" /\ ~trace[i].ok /\ NextGetAfter(trace, i) # 0)
                    => trace[NextGetAfter(trace, i)].page = trace[i].page)

\* two failed attempts in a row on page 2, then page 2 is fetched
C3_Witness ==
    /\ variant = "v3"
    /\ rows # <<>>
    /\ \E i \in DOMAIN trace :
          /\ i + 4 <= Len(trace)
          /\ trace[i].op = "get" /\ ~trace[i].ok /\ trace[i].page = 2
          /\ trace[i + 2].op = "get" /\ ~trace[i + 2].ok /\ trace[i + 2].page = 2
          /\ IsPageGet(trace[i + 4]) /\ trace[i + 4].page = 2

MaxOf(S) == CHOOSE x \in S : \A y \in S : y <= x

\* pages of the current year whose items were received
PagesProcessed == Len(SelectSeq(trace, IsPageGet))

\* the total page counts the API reported for the current year (0 = none)
ReportedTotals == {trace[i].total : i \in {j \in DOMAIN trace : IsOkGet(trace[j])}} \ {0}

PageBound ==
    IF max_pages > 0
    THEN PagesProcessed <= max_pages
    ELSE ReportedTotals = {} \/ PagesProcessed <= MaxOf(ReportedTotals)

\* C4: provided every page's fetch eventually succeeds, scrape_year, once in
\* its loop, eventually returns, having processed at most max_pages pages when
\* max_pages > 0 and otherwise at most the total page count the API reported.
C4_ReturnsWithinBound ==
    (variant = "v3" /\ pc = "loop") ~> (pc = "finish" /\ PageBound)

\* C4 without "returns": the loop always ends, by return or by an exception,
\* within the page bound
C4_EndsWithinBound ==
    (variant = "v3" /\ pc = "loop") ~> (v3_year_ended /\ PageBound)

\* the first successful response of the current year carried no item
FirstResponseEmpty == OkGets(trace) # <<>> /\ OkGets(trace)[1].n = 0

YearsOf(rs) == {rs[i].year : i \in DOMAIN rs}

\* C5: in each variant, when the first successful response of a year has no
\* items the year ends without error with no row and no per-year file; and
\* a per-year file is written if and only if the year produced a record.
C5_FileIffRecords ==
    /\ (FirstResponseEmpty /\ pc # "loop") =>
           /\ exc = "none"
           /\ rows = <<>>
           /\ YearFile(year) \notin files
    /\ (variant \in {"v3", "bulk"} /\ pc \in {"main", "done"}) =>
           \A k \in 1..(yi - 1) :
               YearFile(years[k]) \in files <=> years[k] \in YearsOf(all_rows)
    /\ (variant = "escrape" /\ pc \in {"done", "crashed"} /\ year # 0) =>
           (YearFile(year) \in files <=> rows # <<>>)

\* rows rs are one record per served item ds, in the same order
RowsMatch(rs, ds) ==
    /\ Len(rs) = Len(ds)
    /\ \A i \in DOMAIN rs :
          /\ rs[i].year = ds[i].year
          /\ rs[i].title = Get(ds[i].item, "title")
          /\ rs[i].item_url = Get(ds[i].item, "viewItemURL")
          /\ rs[i].gallery_url = Get(ds[i].item, "galleryURL")

OfYear(ds, y) == SelectSeq(ds, LAMBDA d : d.year = y)

\* a before b in (year, page, position) order
ServedBefore(a, b) ==
    \/ a.year < b.year
    \/ a.year = b.year /\ a.page < b.page
    \/ a.year = b.year /\ a.page = b.page /\ a.idx < b.idx

\* C6: the result of scrape_year(year) is one record per item of every
\* successfully fetched non-empty page, in page order and item order, each
\* with the requested year; retries add and duplicate nothing; the combined
\* result is the per-year results in ascending year order.
C6_ResultIsConcatenation ==
    variant = "v3" =>
        /\ pc = "finish" =>
              /\ RowsMatch(rows, OfYear(delivered, year))
              /\ \A i \in DOMAIN rows : rows[i].year = year
        /\ pc \in {"main", "done"} =>
              /\ RowsMatch(all_rows, delivered)
              /\ \A i, j \in DOMAIN delivered :
                    i < j => ServedBefore(delivered[i], delivered[j])
              /\ \A i \in DOMAIN all_rows :
                    \E k \in 1..(yi - 1) : years[k] = all_rows[i].year

\* two years scraped, one of them over two pages after a retry, one page
\* with two items
C6_Witness ==
    /\ variant = "v3"
    /\ pc = "done"
    /\ Cardinality(YearsOf(all_rows)) = 2
    /\ NumFails(trace) > 0
    /\ \E i \in DOMAIN delivered : delivered[i].page = 2
    /\ \E i \in DOMAIN delivered : delivered[i].idx = 2
    /\ Len(all_rows) >= 4

\* C7: attribute extraction is total: parse_title of v3.py and of
\* escrapebulk1.py returns a player, grade and card number for every title,
\* the empty and the whitespace-only title included.
C7_ExtractionTotal ==
    (pc = "extracted" /\ variant \in {"v3", "bulk"}) => extracted.exc = "none"

\* C7, second half: an item without title does not abort the retrieval
C7_NoTitleNoAbort ==
    variant = "v3" => ~(pc = "crashed" /\ exc = "IndexError")

\* C8: the --delay sleep happens only between two successful page fetches:
\* a sleep that follows a failed request lasts the fixed 5, every other sleep
\* follows a page that was received, and when scrape_year leaves its loop the
\* last thing it did was a request, not a sleep.
C8_DelayOnlyBetweenPages ==
    variant = "v3" =>
        /\ \A i \in DOMAIN trace :
              trace[i].op = "sleep" =>
                  /\ i > 1
                  /\ trace[i - 1].op = "get"
                  /\ IF trace[i - 1].ok
                     THEN trace[i - 1].n > 0 /\ trace[i].secs = delay
                     ELSE trace[i].secs = RetryCooldown
        /\ (pc = "finish" /\ trace # <<>>) => trace[Len(trace)].op = "get"

\* C8 without the max-page cap: what holds of the sleeps in every run
C8_SleepPlacement ==
    variant = "v3" =>
        /\ \A i \in DOMAIN trace :
              trace[i].op = "sleep" =>
                  /\ i > 1
                  /\ trace[i - 1].op = "get"
                  /\ IF trace[i - 1].ok
                     THEN trace[i - 1].n > 0 /\ trace[i].secs = delay
                     ELSE trace[i].secs = RetryCooldown
        /\ (pc = "finish" /\ trace # <<>> /\ ~v3_cap_reached)
               => trace[Len(trace)].op = "get"

\* a comma-separated piece that is one integer / one range start-end
IsIntToken(t) == AllDigits(t)
IsRangeToken(t) ==
    \E k \in 2..(Len(t) - 1) :
        t[k] = "-" /\ AllDigits(SubSeq(t, 1, k - 1)) /\ AllDigits(SubSeq(t, k + 1, Len(t)))

\* the years a token denotes
Denotes(t) ==
    IF IsIntToken(t)
    THEN {DecimalValue(t)}
    ELSE LET k == CHOOSE k \in 2..(Len(t) - 1) : t[k] = "-"
         IN  DecimalValue(SubSeq(t, 1, k - 1))..DecimalValue(SubSeq(t, k + 1, Len(t)))

Tokens(a) == {Strip(SplitSep(a, ",")[i]) : i \in DOMAIN SplitSep(a, ",")} \ {<<>>}

WellFormedArg(a) == \A t \in Tokens(a) : IsIntToken(t) \/ IsRangeToken(t)

\* C9: parse_years maps comma-separated tokens, each an integer or a range
\* start-end, to the years denoted by any token, each once, in strictly
\* ascending order; empty tokens are ignored.
C9_ParseYears ==
    (pc # "start" /\ WellFormedArg(arg)) =>
        /\ pc = "main"
        /\ Range(years) = UNION {Denotes(t) : t \in Tokens(arg)}
        /\ \A i, j \in DOMAIN years : i < j => years[i] < years[j]

\* "1-2,1": a range and a value it already covers
C9_Witness ==
    /\ pc = "main"
    /\ arg = <<"1", "-", "2", ",", "1">>
    /\ years = <<1, 2>>

\* maximal runs of non-whitespace, as pairs of first and last index
TokenSpans(s) ==
    {sp \in (1..Len(s)) \X (1..Len(s)) :
        /\ sp[1] <= sp[2]
        /\ \A k \in sp[1]..sp[2] : ~IsSpace(s[k])
        /\ sp[1] = 1 \/ IsSpace(s[sp[1] - 1])
        /\ sp[2] = Len(s) \/ IsSpace(s[sp[2] + 1])}

TokenList(s) ==
    [i \in 1..Cardinality(TokenSpans(s)) |->
        LET sp == CHOOSE sp \in TokenSpans(s) :
                      Cardinality({o \in TokenSpans(s) : o[1] < sp[1]}) = i - 1
        IN  SubSeq(s, sp[1], sp[2])]

PairQualifies(tok, stop, i) ==
    /\ _clean(tok[i]) \notin stop
    /\ _clean(tok[i + 1]) \notin stop
    /\ IsUpper(tok[i][1])
    /\ IsUpper(tok[i + 1][1])

ExpectedPlayer(tok, stop) ==
    IF \E i \in 1..(Len(tok) - 1) : PairQualifies(tok, stop, i)
    THEN LET i == CHOOSE i \in 1..(Len(tok) - 1) :
                      /\ PairQualifies(tok, stop, i)
                      /\ \A k \in 1..(i - 1) : ~PairQualifies(tok, stop, k)
         IN  tok[i] \o <<" ">> \o tok[i + 1]
    ELSE tok[1]

\* C10: for a title with at least one token guess_player returns the leftmost
\* adjacent pair of tokens neither of which cleans to a stopword and both of
\* which begin with an uppercase character, space-joined, and the first token
\* when no pair qualifies.
C10_GuessPlayer ==
    (pc = "extracted" /\ variant \in {"v3", "bulk"} /\ TokenList(title) # <<>>) =>
        /\ extracted.exc = "none"
        /\ extracted.val.player =
               ExpectedPlayer(TokenList(title),
                              IF variant = "bulk" THEN bulk_BRAND_STOPWORDS
                                                  ELSE BRAND_STOPWORDS)

\* "2020 Topps Chrome PSA 10 Mike Trout #27": five pairs are passed over
C10_Witness ==
    /\ pc = "extracted"
    /\ variant = "v3"
    /\ Len(title) = 39
    /\ extracted.exc = "none"
    /\ extracted.val.player = <<"M","i","k","e"," ","T","r","o","u","t">>

\* pages received with items before position i of the trace
PageGetsBefore(tr, i) == Cardinality({j \in 1..(i - 1) : IsPageGet(tr[j])})

\* the pages of year y whose items went to the append loop, in order
PagesOf(ds, y) == [i \in DOMAIN OfYear(ds, y) |-> OfYear(ds, y)[i].page]

\* C11: in scrape_year of v3.py every fetch attempt requests page
\* fetched_pages + 1, whatever failures and successes came before, and the
\* pages whose items are appended are exactly 1, 2, ..., k in increasing
\* order: no page is skipped and none is processed twice.
C11_SequentialPages ==
    /\ [][variant = "v3" =>
            \A i \in (Len(trace) + 1)..Len(trace') :
                trace'[i].op = "get" => trace'[i].page = fetched_pages + 1]_vars
    /\ [](variant = "v3" =>
            /\ \A i \in DOMAIN trace :
                  trace[i].op = "get" =>
                      trace[i].page = PageGetsBefore(trace, i) + 1
            /\ \A k \in DOMAIN SelectSeq(trace, IsPageGet) :
                  SelectSeq(trace, IsPageGet)[k].page = k
            /\ {PagesOf(delivered, year)[i] : i \in DOMAIN PagesOf(delivered, year)}
                  = 1..PagesProcessed
            /\ \A i, j \in DOMAIN PagesOf(delivered, year) :
                  i < j => PagesOf(delivered, year)[i] <= PagesOf(delivered, year)[j]
            /\ pc \in {"loop", "finish"} =>
                  /\ fetched_pages = PagesProcessed
                  /\ RowsMatch(rows, OfYear(delivered, year))
            /\ pc = "loop" => page = fetched_pages + 1)

\* page 1 fails, then is received; page 2 fails, then is received
C11_Witness ==
    /\ variant = "v3"
    /\ pc = "finish"
    /\ fetched_pages = 2
    /\ Len(Gets(trace)) = 4
    /\ ~Gets(trace)[1].ok /\ Gets(trace)[1].page = 1
    /\ IsPageGet(Gets(trace)[2]) /\ Gets(trace)[2].page = 1
    /\ ~Gets(trace)[3].ok /\ Gets(trace)[3].page = 2
    /\ IsPageGet(Gets(trace)[4]) /\ Gets(trace)[4].page = 2
    /\ Len(rows) >= 2

====
